---------------------------- MODULE Spec2Model ----------------------------
(***************************************************************************)
(* A model of grid.py: the name normaliser, the catalog index builders,   *)
(* the random-roll resolver and the row matcher / wishlist writer of       *)
(* main().                                                                 *)
(*                                                                         *)
(* A Python str is a sequence of one-character strings (the literal parts  *)
(* of an f-string are kept as single fragments).  A Python dict is a       *)
(* function; where the code iterates a dict (a JSON object in file order)  *)
(* the table is a sequence of records carrying their key.                  *)
(***************************************************************************)
EXTENDS Integers, Sequences, FiniteSets, TLC

VARIABLES
    \* _normalize_name applied to a text, and to its own result
    name, key, key2, npc,
    \* one call of _random_roll_perk_ids: the socket loop
    r_sockets, r_plug_sets, r_idx, perk_hashes, rpc,
    \* main(): what the spreadsheet and the API serve, the local variables
    \* bound so far, the lines of ./the_grid.tsv, what was printed, the index
    \* of the row the loop is at, the statement main is at, and the exception
    \* that ended it
    remote, locals, f, stdout, row, pc, exc

norm_vars == <<name, key, key2, npc>>
res_vars  == <<r_sockets, r_plug_sets, r_idx, perk_hashes, rpc>>
main_vars == <<remote, locals, f, stdout, row, pc, exc>>
vars == <<norm_vars, res_vars, main_vars>>

(***************************************************************************)
(* Bounds of the model.                                                    *)
(***************************************************************************)
MaxLen == 5          \* longest text given to _normalize_name on its own
MaxSockets == 3      \* socket entries of the weapon resolved on its own
MaxRows == 3         \* rows of the spreadsheet

(***************************************************************************)
(* Python values.                                                          *)
(***************************************************************************)
\* None: distinct from every str (a str holds one-character strings only).
None == <<"None">>

\* Results of a call: a returned value, or a raised exception (its class).
NoExc == "no exception"
Return(v) == [exc |-> NoExc, val |-> v]
Raise(e) == [exc |-> e, val |-> None]

Range(s) == {s[i] : i \in DOMAIN s}

\* The characters the texts of the model are made of.
Alphabet == {"a", "b", "B", "-", " "}

\* str.lower on one character.
Lower(c) == CASE c = "A" -> "a" [] c = "B" -> "b" [] OTHER -> c

\* str.isalnum on one character.
IsAlnum(c) == c \in {"a", "b", "A", "B",
                     "0", "1", "2", "3", "4", "5", "6", "7", "8", "9"}

\* The characters str.split() splits on.
IsSpace(c) == c \in {" ", "\t", "\n"}

LowerText(s) == [i \in DOMAIN s |-> Lower(s[i])]

\* Length of the longest prefix of s without whitespace.
TokenLen(s) ==
    IF \E i \in DOMAIN s : IsSpace(s[i])
    THEN (CHOOSE i \in DOMAIN s :
              IsSpace(s[i]) /\ \A j \in 1..(i - 1) : ~IsSpace(s[j])) - 1
    ELSE Len(s)

\* str.split() without arguments: the maximal runs of non-whitespace.
RECURSIVE Split(_)
Split(s) ==
    IF s = <<>> THEN <<>>
    ELSE IF IsSpace(Head(s)) THEN Split(Tail(s))
    ELSE LET n == TokenLen(s)
         IN  <<SubSeq(s, 1, n)>> \o Split(SubSeq(s, n + 1, Len(s)))

\* sep.join(parts)
RECURSIVE Join(_, _)
Join(parts, sep) ==
    IF parts = <<>> THEN <<>>
    ELSE IF Len(parts) = 1 THEN parts[1]
    ELSE parts[1] \o sep \o Join(Tail(parts), sep)

\* "".join(c for c in token if c.isalnum())
StripToken(token) == SelectSeq(token, IsAlnum)

\* _normalize_name
Normalize(text) ==
    LET toks == Split(LowerText(text))
    IN  Join([i \in DOMAIN toks |-> StripToken(toks[i])], <<" ">>)

\* str(n) of a non-negative int
Digit(d) == <<"0", "1", "2", "3", "4", "5", "6", "7", "8", "9">>[d + 1]
RECURSIVE Str(_)
Str(n) == IF n < 10 THEN <<Digit(n)>> ELSE Str(n \div 10) \o <<Digit(n % 10)>>

\* All texts of at most n characters of the alphabet.
Texts(n) == UNION {[1..k -> Alphabet] : k \in 0..n}

(***************************************************************************)
(* Specification SpecNormalize: _normalize_name on every text up to        *)
(* MaxLen, then on its own result.                                         *)
(***************************************************************************)
IdleRes ==
    /\ r_sockets = <<>> /\ r_plug_sets = <<>> /\ r_idx = 0
    /\ perk_hashes = {} /\ rpc = "idle"

IdleMain ==
    /\ remote = <<>> /\ locals = <<>> /\ f = <<>> /\ stdout = <<>> /\ row = 0
    /\ pc = "idle" /\ exc = NoExc

IdleNorm == name = <<>> /\ key = None /\ key2 = None /\ npc = "idle"

InitNormalize ==
    /\ name \in Texts(MaxLen)
    /\ key = None /\ key2 = None /\ npc = "call"
    /\ IdleRes /\ IdleMain

ApplyNormalize ==
    /\ npc = "call"
    /\ key' = Normalize(name)
    /\ npc' = "once"
    /\ UNCHANGED <<name, key2, res_vars, main_vars>>

ReapplyNormalize ==
    /\ npc = "once"
    /\ key2' = Normalize(key)
    /\ npc' = "twice"
    /\ UNCHANGED <<name, key, res_vars, main_vars>>

NextNormalize == ApplyNormalize \/ ReapplyNormalize

SpecNormalize == InitNormalize /\ [][NextNormalize]_vars

\* C2: normalize(normalize(x)) = normalize(x) for every text x, and
\* normalize("") = "".
C2_NormalizeIdempotent ==
    /\ (npc = "twice" => key2 = key)
    /\ (npc # "call" /\ name = <<>> => key = <<>>)


(***************************************************************************)
(* Catalog tables.  An item record holds its dict key, its "hash", its     *)
(* display name, its itemCategoryHashes (empty when the field is absent)   *)
(* and its sockets.socketEntries (empty when absent).  A socket entry is a *)
(* dict that may hold "randomizedPlugSetHash".                             *)
(***************************************************************************)
FixedSocket == [singleInitialItemHash |-> 0]
RandomSocket(h) == [randomizedPlugSetHash |-> h]

PlugSet(hashes) ==
    [reusablePlugItems |-> [i \in DOMAIN hashes |-> [plugItemHash |-> hashes[i]]]]

\* d[k] = v on a dict
DictSet(d, k, v) == [x \in (DOMAIN d) \cup {k} |-> IF x = k THEN v ELSE d[x]]

\* d.get(k)
DictGet(d, k) == IF k \in DOMAIN d THEN d[k] ELSE None

\* The body of the socket loop as a mutant would have it: the accumulator is
\* overwritten by the last plug set instead of united with it.
SocketEntryStepOverwrite(acc, socket_entry, plugs) ==
    IF "randomizedPlugSetHash" \in DOMAIN socket_entry
    THEN LET plug_set_hash == Str(socket_entry.randomizedPlugSetHash)
         IN  IF plug_set_hash \notin DOMAIN plugs
             THEN Raise("KeyError")
             ELSE LET rp == plugs[plug_set_hash].reusablePlugItems
                  IN  Return({Str(rp[i].plugItemHash) : i \in DOMAIN rp})
    ELSE Return(acc)

\* The body of the socket loop as a mutant would have it: a plug set the
\* table lacks is skipped (plug_sets.get) instead of raising.
SocketEntryStepSkipMissing(acc, socket_entry, plugs) ==
    IF "randomizedPlugSetHash" \in DOMAIN socket_entry
    THEN LET plug_set_hash == Str(socket_entry.randomizedPlugSetHash)
         IN  IF plug_set_hash \notin DOMAIN plugs
             THEN Return(acc)
             ELSE LET rp == plugs[plug_set_hash].reusablePlugItems
                  IN  Return(acc \cup {Str(rp[i].plugItemHash) : i \in DOMAIN rp})
    ELSE Return(acc)

\* The body of the loop of _random_roll_perk_ids on one socket entry.
SocketEntryStep(acc, socket_entry, plugs) ==
    IF "randomizedPlugSetHash" \in DOMAIN socket_entry
    THEN LET plug_set_hash == Str(socket_entry.randomizedPlugSetHash)
         IN  IF plug_set_hash \notin DOMAIN plugs
             THEN Raise("KeyError")
             ELSE LET rp == plugs[plug_set_hash].reusablePlugItems
                      plug_set_item_hashes ==
                          [i \in DOMAIN rp |-> Str(rp[i].plugItemHash)]
                  IN  Return(acc \cup Range(plug_set_item_hashes))
    ELSE Return(acc)

(***************************************************************************)
(* Specification SpecResolve: one call of _random_roll_perk_ids, socket    *)
(* entry by socket entry.                                                  *)
(***************************************************************************)
SocketEntries == {FixedSocket, RandomSocket(1), RandomSocket(2), RandomSocket(3)}

PlugLists == {<<>>, <<10>>, <<10, 11>>, <<11, 12>>, <<12, 12>>}

\* Plug-set tables with the plug sets 1 and 2; no plug set 3.
PlugSetTables ==
    {[k \in {Str(1), Str(2)} |-> IF k = Str(1) THEN PlugSet(a) ELSE PlugSet(b)] :
        a \in PlugLists, b \in PlugLists}

InitResolve ==
    /\ r_sockets \in UNION {[1..n -> SocketEntries] : n \in 0..MaxSockets}
    /\ r_plug_sets \in PlugSetTables
    /\ r_idx = 1 /\ perk_hashes = {} /\ rpc = "loop"
    /\ IdleNorm /\ IdleMain

ResolveSocket ==
    /\ rpc = "loop" /\ r_idx <= Len(r_sockets)
    /\ LET res == SocketEntryStep(perk_hashes, r_sockets[r_idx], r_plug_sets)
       IN  IF res.exc # NoExc
           THEN rpc' = res.exc /\ UNCHANGED <<perk_hashes, r_idx>>
           ELSE perk_hashes' = res.val /\ r_idx' = r_idx + 1 /\ UNCHANGED rpc
    /\ UNCHANGED <<r_sockets, r_plug_sets, norm_vars, main_vars>>

ResolveReturn ==
    /\ rpc = "loop" /\ r_idx > Len(r_sockets)
    /\ rpc' = "returned"
    /\ UNCHANGED <<r_sockets, r_plug_sets, r_idx, perk_hashes, norm_vars, main_vars>>

NextResolve == ResolveSocket \/ ResolveReturn

SpecResolve == InitResolve /\ [][NextResolve]_vars

\* The plug item identifiers of the plug set a randomized socket refers to.
PlugItemsOf(socket_entry, plugs) ==
    LET rp == plugs[Str(socket_entry.randomizedPlugSetHash)].reusablePlugItems
    IN  {rp[i].plugItemHash : i \in DOMAIN rp}

RandomizedOf(entries) ==
    {i \in DOMAIN entries : "randomizedPlugSetHash" \in DOMAIN entries[i]}

RandomizedUnion(entries, plugs) ==
    UNION {PlugItemsOf(entries[i], plugs) : i \in RandomizedOf(entries)}

\* C1: the perk set _random_roll_perk_ids returns is exactly the union of the
\* plug item identifiers (as str) of the plug sets its randomized sockets
\* refer to; fixed sockets add nothing and no item is counted twice, so its
\* size is the size of that union.
C1_PerkSetIsUnion ==
    rpc = "returned" =>
        /\ perk_hashes = {Str(p) : p \in RandomizedUnion(r_sockets, r_plug_sets)}
        /\ Cardinality(perk_hashes) =
               Cardinality(RandomizedUnion(r_sockets, r_plug_sets))

\* A weapon with a fixed socket and two randomized sockets whose plug sets A
\* and B differ and overlap has been resolved: |A u B| < |A| + |B|.
C1_Witness ==
    /\ rpc = "returned"
    /\ \E k \in DOMAIN r_sockets : r_sockets[k] = FixedSocket
    /\ \E i, j \in RandomizedOf(r_sockets) :
          LET A == PlugItemsOf(r_sockets[i], r_plug_sets)
              B == PlugItemsOf(r_sockets[j], r_plug_sets)
          IN  /\ A # B /\ A \cap B # {}
              /\ perk_hashes = {Str(p) : p \in A \cup B}
              /\ Cardinality(perk_hashes) < Cardinality(A) + Cardinality(B)

(***************************************************************************)
(* The catalog index builders.                                             *)
(***************************************************************************)
Item(h, nm, cats, socks) ==
    [key |-> Str(h), hash |-> h, name |-> nm,
     itemCategoryHashes |-> cats, socketEntries |-> socks]

Category(h, nm) == [key |-> Str(h), hash |-> h, name |-> nm]

\* The places of the table `tbl` whose dict key is k.
Places(tbl, k) == {i \in DOMAIN tbl : tbl[i].key = k}

\* tbl[k] for a key the table holds
Lookup(tbl, k) == tbl[CHOOSE i \in Places(tbl, k) : TRUE]

Min(S) == CHOOSE i \in S : \A j \in S : i <= j
Max(S) == CHOOSE i \in S : \A j \in S : i >= j

\* Every order a collection may be iterated in.
IterationOrders(S) ==
    {o \in [1..Cardinality(S) -> S] : \A i, j \in DOMAIN o : o[i] = o[j] => i = j}

\* next(c["hash"] for c in categories.values() if ... == "Weapon"), as a
\* mutant would have it: a default of 0 when no category is named "Weapon".
FirstWeaponCategoryDefault(cats) ==
    LET ws == {i \in DOMAIN cats : cats[i].name = "Weapon"}
    IN  IF ws = {} THEN Return(0) ELSE Return(cats[Min(ws)].hash)

\* next(c["hash"] for c in categories.values() if ... == "Weapon")
FirstWeaponCategory(cats) ==
    LET ws == {i \in DOMAIN cats : cats[i].name = "Weapon"}
    IN  IF ws = {} THEN Raise("StopIteration") ELSE Return(cats[Min(ws)].hash)

\* A dict comprehension's store as a mutant would have it: a key already
\* there keeps its value.
DictStoreKeepFirst(d, k, v) == IF k \in DOMAIN d THEN d ELSE DictSet(d, k, v)

\* What a dict comprehension does with each (key, value) it yields.
DictStore(d, k, v) == DictSet(d, k, v)

\* {_normalize_name(v.name): k for (k, v) in items.items() if weapon_hash in ...}
RECURSIVE WeaponDict(_, _, _)
WeaponDict(itms, weapon_hash, d) ==
    IF itms = <<>> THEN d
    ELSE LET v == Head(itms)
         IN  WeaponDict(Tail(itms), weapon_hash,
                 IF weapon_hash \in v.itemCategoryHashes
                 THEN DictStore(d, Normalize(v.name), v.key)
                 ELSE d)

\* _weapon_names_and_hashes
WeaponNamesAndHashes(cats, itms) ==
    LET weapon_hash == FirstWeaponCategory(cats)
    IN  IF weapon_hash.exc # NoExc THEN weapon_hash
        ELSE Return(WeaponDict(itms, weapon_hash.val, <<>>))

\* The loop of _random_roll_perk_ids over the socket entries.
RECURSIVE SocketLoop(_, _, _)
SocketLoop(entries, plugs, acc) ==
    IF entries = <<>> THEN Return(acc)
    ELSE LET res == SocketEntryStep(acc, Head(entries), plugs)
         IN  IF res.exc # NoExc THEN res
             ELSE SocketLoop(Tail(entries), plugs, res.val)

\* _random_roll_perk_ids
RandomRollPerkIds(item_id, itms, plugs) ==
    IF Places(itms, Str(item_id)) = {} THEN Raise("KeyError")
    ELSE SocketLoop(Lookup(itms, Str(item_id)).socketEntries, plugs, {})

\* The loop of _all_random_roll_perks over items.values().
RECURSIVE PerkIdLoop(_, _, _, _, _)
PerkIdLoop(rest, weapon_hash, itms, plugs, perk_ids) ==
    IF rest = <<>> THEN Return(perk_ids)
    ELSE LET item == Head(rest)
         IN  IF weapon_hash \notin item.itemCategoryHashes
             THEN PerkIdLoop(Tail(rest), weapon_hash, itms, plugs, perk_ids)
             ELSE LET res == RandomRollPerkIds(item.hash, itms, plugs)
                  IN  IF res.exc # NoExc THEN res
                      ELSE PerkIdLoop(Tail(rest), weapon_hash, itms, plugs,
                                      perk_ids \cup res.val)

\* _all_random_roll_perks up to its return statement: the perk_ids set.
ReachablePerkIds(cats, itms, plugs) ==
    LET weapon_hash == FirstWeaponCategory(cats)
    IN  IF weapon_hash.exc # NoExc THEN weapon_hash
        ELSE PerkIdLoop(itms, weapon_hash.val, itms, plugs, {})

\* {_normalize_name(items[perk_id].name): perk_id for perk_id in perk_ids},
\* perk_ids iterated in `order`.
RECURSIVE PerkDict(_, _, _)
PerkDict(order, itms, d) ==
    IF order = <<>> THEN Return(d)
    ELSE LET perk_id == Head(order)
         IN  IF Places(itms, perk_id) = {} THEN Raise("KeyError")
             ELSE PerkDict(Tail(order), itms,
                      DictStore(d, Normalize(Lookup(itms, perk_id).name), perk_id))

\* _all_random_roll_perks, its set of str iterated in `order`.
AllRandomRollPerks(cats, itms, plugs, order) ==
    LET perk_ids == ReachablePerkIds(cats, itms, plugs)
    IN  IF perk_ids.exc # NoExc THEN perk_ids ELSE PerkDict(order, itms, <<>>)

(***************************************************************************)
(* The row loop of main() and the wishlist line.                           *)
(***************************************************************************)
\* `not x` for x a str or None
Falsy(x) == x = None \/ x = <<>>

\* _wishlist_url as a mutant would have it: the perks deduplicated.
WishlistUrlDedup(weapon_hash, perks, comment) ==
    <<"dimwishlist:item=">> \o weapon_hash \o <<"&perks=">>
    \o Join(IF Len(perks) = 2 /\ perks[1] = perks[2] THEN <<perks[1]>> ELSE perks,
            <<",">>)
    \o <<"#notes: ">> \o comment

\* _wishlist_url; weapon_hash and the perks are str already, and str(p) of a
\* str is p.
WishlistUrl(weapon_hash, perks, comment) ==
    <<"dimwishlist:item=">> \o weapon_hash \o <<"&perks=">>
    \o Join(perks, <<",">>) \o <<"#notes: ">> \o comment

\* The f-string of the comment main() passes to _wishlist_url.
Comment(weapon, p1, p2) ==
    <<"the grid (season 13) - ">> \o weapon \o <<", ">> \o p1 \o <<", ">> \o p2

\* The body of main()'s row loop as a mutant would have it: no `continue`
\* after a missing second perk, so the line is written with what was found.
RowStepPartial(out, roll, weapons, perks) ==
    LET weapon == roll[1]
        p1 == roll[2]
        p2 == roll[3]
        item_hash == DictGet(weapons, weapon)
        p1_hash == DictGet(perks, p1)
        p2_hash == DictGet(perks, p2)
    IN  IF Falsy(item_hash)
        THEN [out EXCEPT !.stdout =
                 Append(@, <<"warning: skipping weapon: missing weapon: ">> \o weapon)]
        ELSE IF Falsy(p1_hash)
        THEN [out EXCEPT !.stdout =
                 Append(@, <<"warning: skipping weapon: missing perk: ">> \o p1)]
        ELSE IF Falsy(p2_hash)
        THEN [f |-> Append(out.f, WishlistUrl(item_hash, <<p1_hash>>,
                                              Comment(weapon, p1, p2))),
              stdout |-> Append(out.stdout,
                  <<"warning: skipping weapon: missing perk: ">> \o p2)]
        ELSE [out EXCEPT !.f =
                 Append(@, WishlistUrl(item_hash, <<p1_hash, p2_hash>>,
                                       Comment(weapon, p1, p2)))]

\* The body of the row loop as a mutant would have it: no `continue` after a
\* missing weapon, so the perks of the row are looked up as well.
RowStepNoContinue(out, roll, weapons, perks) ==
    LET weapon == roll[1]
        p1 == roll[2]
        p2 == roll[3]
        item_hash == DictGet(weapons, weapon)
        p1_hash == DictGet(perks, p1)
        p2_hash == DictGet(perks, p2)
        o1 == IF Falsy(item_hash)
              THEN [out EXCEPT !.stdout =
                 Append(@, <<"warning: skipping weapon: missing weapon: ">> \o weapon)]
              ELSE out
    IN  IF Falsy(p1_hash)
        THEN [o1 EXCEPT !.stdout =
                 Append(@, <<"warning: skipping weapon: missing perk: ">> \o p1)]
        ELSE IF Falsy(p2_hash)
        THEN [o1 EXCEPT !.stdout =
                 Append(@, <<"warning: skipping weapon: missing perk: ">> \o p2)]
        ELSE [o1 EXCEPT !.f =
                 Append(@, WishlistUrl(item_hash, <<p1_hash, p2_hash>>,
                                       Comment(weapon, p1, p2)))]

\* The body of main()'s row loop on one (weapon, p1, p2) of grid_rolls:
\* out.f is the file's lines so far, out.stdout the warnings printed so far.
RowStep(out, roll, weapons, perks) ==
    LET weapon == roll[1]
        p1 == roll[2]
        p2 == roll[3]
        item_hash == DictGet(weapons, weapon)
        p1_hash == DictGet(perks, p1)
        p2_hash == DictGet(perks, p2)
    IN  IF Falsy(item_hash)
        THEN [out EXCEPT !.stdout =
                 Append(@, <<"warning: skipping weapon: missing weapon: ">> \o weapon)]
        ELSE IF Falsy(p1_hash)
        THEN [out EXCEPT !.stdout =
                 Append(@, <<"warning: skipping weapon: missing perk: ">> \o p1)]
        ELSE IF Falsy(p2_hash)
        THEN [out EXCEPT !.stdout =
                 Append(@, <<"warning: skipping weapon: missing perk: ">> \o p2)]
        ELSE [out EXCEPT !.f =
                 Append(@, WishlistUrl(item_hash, <<p1_hash, p2_hash>>,
                                       Comment(weapon, p1, p2)))]

\* The row loop on a whole list of rolls.
RECURSIVE RunRows(_, _, _, _)
RunRows(out, rolls, weapons, perks) ==
    IF rolls = <<>> THEN out
    ELSE RunRows(RowStep(out, Head(rolls), weapons, perks), Tail(rolls),
                 weapons, perks)

\* The two lines main() writes first.
Headers == << <<"title:the grid">>, <<"description: it's the grid baby">> >>

(***************************************************************************)
(* main(), statement by statement.  `remote` is what the spreadsheet and   *)
(* the API serve; a fetch either returns it or raises.  `locals` maps the  *)
(* names of main's local variables bound so far to their values; `f` holds *)
(* the lines written to ./the_grid.tsv (none before it is opened).         *)
(***************************************************************************)
\* The local variable v has been assigned.
Bound(v) == v \in DOMAIN locals

\* v = value
Bind(v, value) ==
    locals' = [n \in (DOMAIN locals) \cup {v} |-> IF n = v THEN value ELSE locals[n]]

grid_rolls == locals["grid_rolls"]
manifest == locals["manifest"]
items == locals["items"]
categories == locals["categories"]
plug_sets == locals["plug_sets"]
weapons_by_name == locals["weapons_by_name"]
perks_by_name == locals["perks_by_name"]

\* An exception leaves main(): the run ends.
Abort(e) ==
    /\ exc' = e
    /\ pc' = "aborted"
    /\ UNCHANGED locals

\* _fetch_grid as a mutant would have it: the output file is opened, and its
\* header written, before anything is fetched.
FetchGridOpensFile ==
    /\ pc = "fetch_grid"
    /\ f' = Headers
    /\ \/ /\ Bind("grid_rolls", [i \in DOMAIN remote.sheet |->
                                   [c \in 1..3 |-> Normalize(remote.sheet[i][c])]])
          /\ pc' = "fetch_manifest"
          /\ UNCHANGED exc
       \/ Abort("HTTPError")
    /\ UNCHANGED <<remote, stdout, row, norm_vars, res_vars>>

\* _fetch_grid: the rows of the sheet, each field normalized.
FetchGrid ==
    /\ pc = "fetch_grid"
    /\ \/ /\ Bind("grid_rolls", [i \in DOMAIN remote.sheet |->
                                   [c \in 1..3 |-> Normalize(remote.sheet[i][c])]])
          /\ pc' = "fetch_manifest"
          /\ UNCHANGED exc
       \/ Abort("HTTPError")
    /\ UNCHANGED <<remote, f, stdout, row, norm_vars, res_vars>>

\* _fetch_manifest
FetchManifest ==
    /\ pc = "fetch_manifest"
    /\ \/ /\ Bind("manifest", "Response")
          /\ pc' = "fetch_items"
          /\ UNCHANGED exc
       \/ \E e \in {"HTTPError", "ValueError"} : Abort(e)
    /\ UNCHANGED <<remote, f, stdout, row, norm_vars, res_vars>>

\* _fetch_content(manifest, "DestinyInventoryItemDefinition")
FetchItems ==
    /\ pc = "fetch_items"
    /\ \/ /\ Bind("items", remote.items)
          /\ pc' = "fetch_categories"
          /\ UNCHANGED exc
       \/ \E e \in {"HTTPError", "KeyError"} : Abort(e)
    /\ UNCHANGED <<remote, f, stdout, row, norm_vars, res_vars>>

\* _fetch_content(manifest, "DestinyItemCategoryDefinition")
FetchCategories ==
    /\ pc = "fetch_categories"
    /\ \/ /\ Bind("categories", remote.categories)
          /\ pc' = "fetch_plug_sets"
          /\ UNCHANGED exc
       \/ \E e \in {"HTTPError", "KeyError"} : Abort(e)
    /\ UNCHANGED <<remote, f, stdout, row, norm_vars, res_vars>>

\* _fetch_content(manifest, "DestinyPlugSetDefinition")
FetchPlugSets ==
    /\ pc = "fetch_plug_sets"
    /\ \/ /\ Bind("plug_sets", remote.plug_sets)
          /\ pc' = "weapons"
          /\ UNCHANGED exc
       \/ \E e \in {"HTTPError", "KeyError"} : Abort(e)
    /\ UNCHANGED <<remote, f, stdout, row, norm_vars, res_vars>>

\* weapons_by_name = _weapon_names_and_hashes(categories, items)
BuildWeapons ==
    /\ pc = "weapons"
    /\ LET res == WeaponNamesAndHashes(categories, items)
       IN  IF res.exc # NoExc
           THEN Abort(res.exc)
           ELSE Bind("weapons_by_name", res.val) /\ pc' = "perks" /\ UNCHANGED exc
    /\ UNCHANGED <<remote, f, stdout, row, norm_vars, res_vars>>

\* perks_by_name = _all_random_roll_perks(categories, items, plug_sets); the
\* order in which Python iterates the set perk_ids is not fixed.
BuildPerks ==
    /\ pc = "perks"
    /\ LET perk_ids == ReachablePerkIds(categories, items, plug_sets)
       IN  \E order \in IterationOrders(IF perk_ids.exc = NoExc
                                        THEN perk_ids.val ELSE {}) :
             LET res == AllRandomRollPerks(categories, items, plug_sets, order)
             IN  IF res.exc # NoExc
                 THEN Abort(res.exc)
                 ELSE Bind("perks_by_name", res.val) /\ pc' = "open"
                      /\ UNCHANGED exc
    /\ UNCHANGED <<remote, f, stdout, row, norm_vars, res_vars>>

\* open("./the_grid.tsv", "w") and the two header lines
OpenAndWriteHeaders ==
    /\ pc = "open"
    /\ f' = Headers
    /\ row' = 1
    /\ pc' = "rows"
    /\ UNCHANGED <<remote, locals, stdout, exc, norm_vars, res_vars>>

\* One iteration of `for weapon, p1, p2 in grid_rolls`.
ProcessRow ==
    /\ pc = "rows" /\ row <= Len(grid_rolls)
    /\ LET out == RowStep([f |-> f, stdout |-> stdout], grid_rolls[row],
                          weapons_by_name, perks_by_name)
       IN  f' = out.f /\ stdout' = out.stdout
    /\ row' = row + 1
    /\ UNCHANGED <<remote, locals, pc, exc, norm_vars, res_vars>>

\* The loop ends, the file is closed, main() returns.
Finish ==
    /\ pc = "rows" /\ row > Len(grid_rolls)
    /\ pc' = "done"
    /\ UNCHANGED <<remote, locals, f, stdout, row, exc, norm_vars, res_vars>>

Next ==
    \/ FetchGrid \/ FetchManifest \/ FetchItems \/ FetchCategories
    \/ FetchPlugSets \/ BuildWeapons \/ BuildPerks \/ OpenAndWriteHeaders
    \/ ProcessRow \/ Finish

StartMain ==
    /\ locals = <<>> /\ f = <<>> /\ stdout = <<>> /\ row = 0
    /\ pc = "fetch_grid" /\ exc = NoExc
    /\ IdleNorm /\ IdleRes

(***************************************************************************)
(* Specification Spec: main() on every sheet of at most MaxRows rows       *)
(* against a catalog that builds, and on the sheets of at most one row     *)
(* against a catalog without a "Weapon" category and one whose weapon      *)
(* refers to a plug set the table lacks.                                   *)
(***************************************************************************)
\* Plug-set table: plug set 1 holds a, plug set 2 holds b.
PlugSets(a, b) ==
    [k \in {Str(1), Str(2)} |-> IF k = Str(1) THEN PlugSet(a) ELSE PlugSet(b)]

\* Weapon 1 "aB" with sockets `socks`, an armor piece 3 "B-" with a socket of
\* its own, and the perk items 10 "a b" and 11 "Ba".
RowItems(socks) ==
    << Item(1, <<"a", "B">>, {1}, socks),
       Item(3, <<"B", "-">>, {2}, <<RandomSocket(3)>>),
       Item(10, <<"a", " ", "b">>, {}, <<>>),
       Item(11, <<"B", "a">>, {}, <<>>) >>

GoodCatalog ==
    [categories |-> <<Category(2, "Armor"), Category(1, "Weapon")>>,
     items |-> RowItems(<<RandomSocket(1), FixedSocket>>),
     plug_sets |-> PlugSets(<<10, 11>>, <<11>>)]

RowCatalogs ==
    { GoodCatalog,
      [categories |-> <<Category(2, "Armor")>>,
       items |-> RowItems(<<RandomSocket(1), FixedSocket>>),
       plug_sets |-> PlugSets(<<10, 11>>, <<11>>)],
      [categories |-> <<Category(2, "Armor"), Category(1, "Weapon")>>,
       items |-> RowItems(<<RandomSocket(1), RandomSocket(3)>>),
       plug_sets |-> PlugSets(<<10, 11>>, <<11>>)] }

\* What a row of the sheet may hold in its "Name" column ...
WeaponFields == {<<"a", "-", "B">>, <<"b">>}
\* ... and in its "Perk 1" and "Perk 2" columns.
PerkFields == {<<"a", " ", "B">>, <<"b", "a", "-">>, <<"a", "b">>}

SheetRows == {<<w, p1, p2>> : w \in WeaponFields, p1 \in PerkFields, p2 \in PerkFields}

Sheets(n) == UNION {[1..k -> SheetRows] : k \in 0..n}

Init ==
    /\ \E c \in RowCatalogs, sh \in Sheets(MaxRows) :
          /\ c = GoodCatalog \/ Len(sh) <= 1
          /\ remote = [sheet |-> sh, categories |-> c.categories,
                       items |-> c.items, plug_sets |-> c.plug_sets]
    /\ StartMain

Spec == Init /\ [][Next]_vars

(***************************************************************************)
(* Specification SpecIndex: main() on one sheet, against catalogs that     *)
(* vary the categories, the weapons' names, tags and sockets, the perks'   *)
(* names, the plug sets and the order of the item table.                   *)
(***************************************************************************)
CategoryTables ==
    LET Names == {"Weapon", "Armor"}
    IN  {<<>>}
        \cup {<<Category(h, n)>> : h \in {1, 2}, n \in Names}
        \cup {<<Category(h, n), Category(3 - h, m)>> :
                 h \in {1, 2}, n \in Names, m \in Names}

IndexItemTables ==
    { IF swap THEN <<w2, w1, p11, p10>> ELSE <<w1, w2, p10, p11>> :
        swap \in BOOLEAN,
        w1 \in {Item(1, n, c, s) :
                   n \in {<<"a", "B">>, <<"a", "-", "b">>},
                   c \in {{1}, {2}, {}},
                   s \in {<<RandomSocket(1), FixedSocket>>,
                          <<RandomSocket(1), RandomSocket(2)>>,
                          <<FixedSocket, RandomSocket(3)>>}},
        w2 \in {Item(2, n, c, s) :
                   n \in {<<"a", "B">>, <<"b">>},
                   c \in {{1}, {2}},
                   s \in {<<RandomSocket(2)>>, <<FixedSocket>>}},
        p10 \in {Item(10, <<"a", " ", "b">>, {}, <<>>)},
        p11 \in {Item(11, n, {}, <<>>) :
                   n \in {<<"B", "a">>, <<"a", " ", "B", "-">>}} }

IndexPlugSets == {PlugSets(<<10, 11>>, <<11>>), PlugSets(<<10>>, <<11, 12>>)}

IndexSheet == << <<<<"a", "-", "B">>, <<"a", " ", "B">>, <<"b", "a", "-">>>> >>

InitIndex ==
    /\ \E c \in CategoryTables, t \in IndexItemTables, ps \in IndexPlugSets :
          remote = [sheet |-> IndexSheet, categories |-> c,
                    items |-> t, plug_sets |-> ps]
    /\ StartMain

SpecIndex == InitIndex /\ [][Next]_vars

(***************************************************************************)
(* The claims about main()'s row loop, checked under Spec.                 *)
(***************************************************************************)
\* The rows of the sheet the loop has been through.
Processed == SubSeq(remote.sheet, 1, row - 1)

\* All three lookups of a row of the sheet hit.
Hit(raw) ==
    /\ Normalize(raw[1]) \in DOMAIN weapons_by_name
    /\ Normalize(raw[2]) \in DOMAIN perks_by_name
    /\ Normalize(raw[3]) \in DOMAIN perks_by_name

\* The directive line of a row whose three lookups hit.
DirectiveOf(raw) ==
    <<"dimwishlist:item=">> \o weapons_by_name[Normalize(raw[1])]
    \o <<"&perks=">> \o perks_by_name[Normalize(raw[2])]
    \o <<",">> \o perks_by_name[Normalize(raw[3])]
    \o <<"#notes: ", "the grid (season 13) - ">> \o Normalize(raw[1])
    \o <<", ">> \o Normalize(raw[2]) \o <<", ">> \o Normalize(raw[3])

\* C3: after the two header lines the file holds exactly one line per row
\* whose weapon key is in weapons_by_name and whose two perk keys are in
\* perks_by_name, in the order of the sheet; a row with a lookup that misses
\* (one valid and one invalid perk included) has no line; at the end every
\* row has been through the loop.
C3_DirectivesAreMatchedRowsInOrder ==
    pc \in {"rows", "done"} =>
        LET hits == SelectSeq(Processed, Hit)
        IN  /\ Len(f) = 2 + Len(hits)
            /\ SubSeq(f, 1, 2) = Headers
            /\ \A j \in DOMAIN hits : f[2 + j] = DirectiveOf(hits[j])
            /\ pc = "done" => Processed = remote.sheet

\* A run has ended whose sheet holds, in this order, a row with a known
\* weapon, a valid first and an invalid second perk, and two rows that match:
\* the file holds the two lines of the latter.
C3_Witness ==
    /\ pc = "done"
    /\ Len(remote.sheet) = 3
    /\ Normalize(remote.sheet[1][1]) \in DOMAIN weapons_by_name
    /\ Normalize(remote.sheet[1][2]) \in DOMAIN perks_by_name
    /\ Normalize(remote.sheet[1][3]) \notin DOMAIN perks_by_name
    /\ Hit(remote.sheet[2]) /\ Hit(remote.sheet[3])
    /\ remote.sheet[2] # remote.sheet[3]
    /\ Len(f) = 4
    /\ f[3] = DirectiveOf(remote.sheet[2]) /\ f[4] = DirectiveOf(remote.sheet[3])

\* s without its i-th element
Without(s, i) == SubSeq(s, 1, i - 1) \o SubSeq(s, i + 1, Len(s))

\* The file and the warnings of the row loop run on `rolls` alone.
LoopOn(rolls) ==
    RunRows([f |-> Headers, stdout |-> <<>>], rolls, weapons_by_name, perks_by_name)

\* C4: a row whose weapon key is not in weapons_by_name adds no line to the
\* file and exactly one warning, which names the weapon (also when its perks
\* miss too); the lines and warnings of the rows before and after it are
\* those of the loop run on the sheet without that row.
C4_WeaponMissIsLocal ==
    pc \in {"rows", "done"} =>
        LET P == SubSeq(grid_rolls, 1, row - 1)
        IN  /\ Len(grid_rolls) = Len(remote.sheet)
            /\ pc = "done" => P = grid_rolls
            /\ \A i \in DOMAIN P :
                 P[i][1] \notin DOMAIN weapons_by_name =>
                   LET rest == LoopOn(Without(P, i))
                       n == Len(LoopOn(SubSeq(P, 1, i - 1)).stdout)
                   IN  /\ f = rest.f
                       /\ Len(stdout) = Len(rest.stdout) + 1
                       /\ stdout[n + 1] =
                            <<"warning: skipping weapon: missing weapon: ">> \o P[i][1]
                       /\ Without(stdout, n + 1) = rest.stdout

\* A run has ended on a sheet of three rows whose second row names an unknown
\* weapon and an unknown first perk, between a row that matches and a row
\* with an unknown perk: one line, and the weapon's warning before the perk's.
C4_Witness ==
    /\ pc = "done"
    /\ Len(grid_rolls) = 3
    /\ grid_rolls[2][1] \notin DOMAIN weapons_by_name
    /\ grid_rolls[2][2] \notin DOMAIN perks_by_name
    /\ Hit(remote.sheet[1])
    /\ grid_rolls[3][1] \in DOMAIN weapons_by_name
    /\ grid_rolls[3][2] \notin DOMAIN perks_by_name
    /\ Len(f) = 3
    /\ stdout = << <<"warning: skipping weapon: missing weapon: ">> \o grid_rolls[2][1],
                   <<"warning: skipping weapon: missing perk: ">> \o grid_rolls[3][2] >>

\* The int "hash" of the catalog item stored under the dict key k.
HashOf(k) == Lookup(remote.items, k).hash

\* C8: the line written for a matched row holds the identifier
\* weapons_by_name maps the row's weapon key to, then the identifiers of
\* perk 1 and of perk 2 in that order, each the decimal rendering of the
\* item's integer hash, the same identifier twice when both perks are the
\* same; with weapon "ab" -> 1 and perks "a b" -> 10, "ba" -> 11 the row
\* (ab, a b, ba) gives item=1&perks=10,11, and a row with a known weapon and
\* first perk and an unknown second perk gives no line and one warning that
\* names the second perk.
C8_DirectiveCarriesIdsInOrder ==
    (pc \in {"rows", "done"} /\ row > 1) =>
        LET roll == grid_rolls[row - 1]
            line == f[Len(f)]
        IN  /\ Hit(remote.sheet[row - 1]) =>
                 LET w == HashOf(weapons_by_name[roll[1]])
                     h1 == HashOf(perks_by_name[roll[2]])
                     h2 == HashOf(perks_by_name[roll[3]])
                     ids == <<"dimwishlist:item=">> \o Str(w) \o <<"&perks=">>
                            \o Str(h1) \o <<",">> \o Str(h2) \o <<"#notes: ">>
                 IN  /\ SubSeq(line, 1, Len(ids)) = ids
                     /\ roll = << <<"a", "b">>, <<"a", " ", "b">>, <<"b", "a">> >> =>
                          SubSeq(line, 1, 9) =
                              <<"dimwishlist:item=", "1", "&perks=",
                                "1", "0", ",", "1", "1", "#notes: ">>
            /\ ( /\ roll[1] \in DOMAIN weapons_by_name
                 /\ roll[2] \in DOMAIN perks_by_name
                 /\ roll[3] \notin DOMAIN perks_by_name ) =>
                 /\ stdout # <<>>
                 /\ stdout[Len(stdout)] =
                      <<"warning: skipping weapon: missing perk: ">> \o roll[3]
                 /\ \A j \in 3..Len(f) :
                      \E i \in 1..(row - 2) :
                          Hit(remote.sheet[i]) /\ f[j] = DirectiveOf(remote.sheet[i])

\* The last row the loop went through matched with the same perk twice, and
\* the line holds its identifier twice: item=1&perks=10,10.
C8_Witness ==
    /\ pc \in {"rows", "done"} /\ row > 1
    /\ Hit(remote.sheet[row - 1])
    /\ grid_rolls[row - 1][2] = grid_rolls[row - 1][3]
    /\ SubSeq(f[Len(f)], 1, 9) =
           <<"dimwishlist:item=", "1", "&perks=", "1", "0", ",", "1", "0", "#notes: ">>

\* C10: nothing is written to the file or printed, and no row is looked up,
\* before the sheet, the manifest, the items, the categories and the plug
\* sets have been fetched and both maps built; a run that ends with an
\* exception has written no line and matched no row.
C10_NoOutputBeforeIndex ==
    /\ (f # <<>> \/ stdout # <<>> \/ row > 0) =>
          /\ \A v \in {"grid_rolls", "manifest", "items", "categories",
                       "plug_sets", "weapons_by_name", "perks_by_name"} : Bound(v)
          /\ grid_rolls = [i \in DOMAIN remote.sheet |->
                              [c \in 1..3 |-> Normalize(remote.sheet[i][c])]]
          /\ items = remote.items /\ categories = remote.categories
          /\ plug_sets = remote.plug_sets
          /\ exc = NoExc
    /\ (exc # NoExc \/ pc = "aborted") =>
          /\ exc # NoExc /\ pc = "aborted"
          /\ f = <<>> /\ stdout = <<>> /\ row = 0

\* A run was aborted while the perk map was built, after every fetch and the
\* weapon map: nothing was written.
C10_Witness ==
    /\ pc = "aborted" /\ exc = "KeyError"
    /\ Bound("plug_sets") /\ Bound("weapons_by_name") /\ ~Bound("perks_by_name")
    /\ remote.sheet # <<>>
    /\ f = <<>> /\ stdout = <<>>

(***************************************************************************)
(* The claims about the catalog index, checked under SpecIndex.            *)
(***************************************************************************)
\* The places of the categories served that are named "Weapon".
WeaponCategories ==
    {i \in DOMAIN remote.categories : remote.categories[i].name = "Weapon"}

\* Every fetch has returned: main() is at, or past, the index builders.
AllFetched == Bound("plug_sets")

\* C5, as claimed: with no category named "Weapon" the index build fails
\* with SchemaDriftError and the run aborts: no weapon map, no perk map, no
\* row matched.
C5_NoWeaponCategorySchemaDrift ==
    WeaponCategories = {} =>
        /\ ~Bound("weapons_by_name") /\ ~Bound("perks_by_name")
        /\ row = 0 /\ f = <<>> /\ stdout = <<>>
        /\ pc \notin {"perks", "open", "rows", "done"}
        /\ (AllFetched /\ pc # "weapons") =>
               pc = "aborted" /\ exc = "SchemaDriftError"

\* C5, as amended: with no category named "Weapon" the index build fails
\* with Python's StopIteration (raised by next() in _weapon_names_and_hashes)
\* and the run aborts: no weapon map, no perk map, no row matched.
C5_NoWeaponCategoryStopIteration ==
    WeaponCategories = {} =>
        /\ ~Bound("weapons_by_name") /\ ~Bound("perks_by_name")
        /\ row = 0 /\ f = <<>> /\ stdout = <<>>
        /\ pc \notin {"perks", "open", "rows", "done"}
        /\ (AllFetched /\ pc # "weapons") =>
               pc = "aborted" /\ exc = "StopIteration"

\* Categories were fetched, none of them named "Weapon", and the build of the
\* weapon map has ended the run.
C5_Witness ==
    /\ WeaponCategories = {} /\ remote.categories # <<>>
    /\ AllFetched /\ pc = "aborted" /\ exc = "StopIteration"
    /\ ~Bound("weapons_by_name")

\* The category tag the builders take for the weapons' (0 when there is none).
WeaponTag ==
    IF WeaponCategories = {} THEN 0
    ELSE remote.categories[Min(WeaponCategories)].hash

\* The places of the items served that carry the weapon tag.
Weapons == {i \in DOMAIN remote.items :
               WeaponTag \in remote.items[i].itemCategoryHashes}

\* A socket entry that refers to a plug set the table served lacks.
Dangling(socket_entry) ==
    /\ "randomizedPlugSetHash" \in DOMAIN socket_entry
    /\ Str(socket_entry.randomizedPlugSetHash) \notin DOMAIN remote.plug_sets

DanglingOnWeapon ==
    /\ WeaponCategories # {}
    /\ \E i \in Weapons : \E k \in DOMAIN remote.items[i].socketEntries :
          Dangling(remote.items[i].socketEntries[k])

\* C6, as claimed: a randomized plug-set reference of a weapon that is not in
\* the plug-set table aborts the resolution with MissingReferenceError; no
\* perk map is built from such a catalog and no row is matched against one.
C6_DanglingPlugSetMissingReference ==
    DanglingOnWeapon =>
        /\ ~Bound("perks_by_name")
        /\ row = 0 /\ f = <<>> /\ stdout = <<>>
        /\ pc \notin {"open", "rows", "done"}
        /\ (Bound("weapons_by_name") /\ pc # "perks") =>
               pc = "aborted" /\ exc = "MissingReferenceError"

\* C6, as amended: such a reference aborts the resolution with Python's
\* KeyError (raised by plug_sets[plug_set_hash]); no perk map is built from
\* such a catalog and no row is matched against one.
C6_DanglingPlugSetKeyError ==
    DanglingOnWeapon =>
        /\ ~Bound("perks_by_name")
        /\ row = 0 /\ f = <<>> /\ stdout = <<>>
        /\ pc \notin {"open", "rows", "done"}
        /\ (Bound("weapons_by_name") /\ pc # "perks") =>
               pc = "aborted" /\ exc = "KeyError"

\* A weapon has a fixed socket and a socket that refers to a plug set the
\* table lacks; the weapon map was built and the perk map's build has ended
\* the run.
C6_Witness ==
    /\ DanglingOnWeapon
    /\ \E i \in Weapons : \E k \in DOMAIN remote.items[i].socketEntries :
          remote.items[i].socketEntries[k] = FixedSocket
    /\ Bound("weapons_by_name") /\ ~Bound("perks_by_name")
    /\ pc = "aborted" /\ exc = "KeyError"

\* The places of the weapons whose name normalizes to k.
WeaponsNamed(k) == {i \in Weapons : Normalize(remote.items[i].name) = k}

\* The perk identifiers (as str) the weapons' randomized sockets reach.
ReachablePerks ==
    {Str(p) : p \in UNION {RandomizedUnion(remote.items[i].socketEntries,
                                           remote.plug_sets) : i \in Weapons}}

\* The places of the reachable perks whose name normalizes to k.
PerksNamed(k) ==
    {i \in DOMAIN remote.items :
        /\ remote.items[i].key \in ReachablePerks
        /\ Normalize(remote.items[i].name) = k}

\* C7, as claimed: each key of weapons_by_name and of perks_by_name maps to
\* the identifier of the first catalog entry, in the order of the item
\* table, whose name normalizes to that key.
C7_FirstRegisteredWins ==
    /\ Bound("weapons_by_name") =>
          \A k \in DOMAIN weapons_by_name :
              weapons_by_name[k] = remote.items[Min(WeaponsNamed(k))].key
    /\ Bound("perks_by_name") =>
          \A k \in DOMAIN perks_by_name :
              perks_by_name[k] = remote.items[Min(PerksNamed(k))].key

\* C7, as amended: each key of weapons_by_name maps to the identifier of the
\* last weapon, in the order of the item table, whose name normalizes to it;
\* each key of perks_by_name maps to the identifier of one of the reachable
\* perks whose name normalizes to it; both maps hold every such key.
C7_LastRegisteredWins ==
    /\ Bound("weapons_by_name") =>
          /\ DOMAIN weapons_by_name =
                 {Normalize(remote.items[i].name) : i \in Weapons}
          /\ \A k \in DOMAIN weapons_by_name :
                 weapons_by_name[k] = remote.items[Max(WeaponsNamed(k))].key
    /\ Bound("perks_by_name") =>
          /\ DOMAIN perks_by_name =
                 {Normalize(Lookup(remote.items, p).name) : p \in ReachablePerks}
          /\ \A k \in DOMAIN perks_by_name :
                 perks_by_name[k] \in {remote.items[i].key : i \in PerksNamed(k)}

\* Two weapons share a key and two reachable perks share a key; the weapon
\* key maps to the later weapon and the perk key to the earlier perk of the
\* item table.
C7_Witness ==
    /\ Bound("weapons_by_name") /\ Bound("perks_by_name")
    /\ \E k \in DOMAIN weapons_by_name :
          /\ Cardinality(WeaponsNamed(k)) = 2
          /\ weapons_by_name[k] = remote.items[Max(WeaponsNamed(k))].key
    /\ \E k \in DOMAIN perks_by_name :
          /\ Cardinality(PerksNamed(k)) = 2
          /\ perks_by_name[k] = remote.items[Min(PerksNamed(k))].key

\* C9: the index is built only if exactly one category is named "Weapon";
\* with several, the build fails instead of taking one of them.
C9_ExactlyOneWeaponCategoryOrFail ==
    Bound("weapons_by_name") => Cardinality(WeaponCategories) = 1

=============================================================================
